---- MODULE Spec2Model ----
(***************************************************************************)
(* A model of carlin/polyhedron_toolbox.py: the conversions between the    *)
(* Half-Space Model [A, b] (Ax <= b) and the polytope object of the        *)
(* polytope engine, the box builder, and the LP queries (support function, *)
(* sup-norm radius, Chebyshev center).                                     *)
(*                                                                         *)
(* A behaviour is one short session of calls.  hist records every call     *)
(* with its arguments and what it returned or raised; regH and regP hold   *)
(* the latest Half-Space Model and the latest polytope object a call       *)
(* returned, which the next call takes as its argument.                    *)
(*                                                                         *)
(* Numbers are integers.  The external LP solver and the external polytope *)
(* engine are computed by exhaustive search over the lattice points of a   *)
(* window; for the systems the sessions build (rows that are multiples of  *)
(* +-e_i with integer right-hand sides inside the window) the search gives *)
(* the optimum, the emptiness and the tight rows of the real polyhedron.   *)
(***************************************************************************)
EXTENDS Integers, Sequences, FiniteSets, TLC

VARIABLES hist, regH, regP

vars == <<hist, regH, regP>>

\* ---- bounds of the model ----
MaxDim == 2        \* ambient dimensions 1..MaxDim
MaxCoord == 1      \* center coordinates and interval ends in -MaxCoord..MaxCoord
MaxRadius == 1     \* box radius in -MaxRadius..MaxRadius
MaxScale == 2      \* the engine rescales rows by 1..MaxScale
MaxCalls == 2      \* calls per session

Window == MaxCoord + MaxRadius + 1

Coords == (-MaxCoord)..MaxCoord

Dims == 1..MaxDim

\* ---- Python values ----
None == [kind |-> "None"]

Num(k) == [kind |-> "num", v |-> k]

Vec(s) == [kind |-> "vec", v |-> s]

Pairs(s) == [kind |-> "pairs", v |-> s]

HList(A, b) == [kind |-> "list", A |-> A, b |-> b]

Raise(e) == [kind |-> "raise", exc |-> e]

\* ---- vectors ----
RECURSIVE DotUpTo(_, _, _)
DotUpTo(u, v, k) == IF k = 0 THEN 0 ELSE DotUpTo(u, v, k - 1) + u[k] * v[k]

Dot(u, v) == DotUpTo(u, v, Len(u))

NegVec(v) == [i \in 1..Len(v) |-> -v[i]]

ScaleVec(s, v) == [i \in 1..Len(v) |-> s * v[i]]

\* zero_vector(base_ring, ndim) with diri[i] = 1
UnitVec(n, i) == [j \in 1..n |-> IF j = i THEN 1 ELSE 0]

Abs(k) == IF k < 0 THEN -k ELSE k

Lattice(n) == [1..n -> (-Window)..Window]

\* {x : Ax <= b}, membership of one point
HFeasible(A, b, x) == \A i \in 1..Len(A) : Dot(A[i], x) <= b[i]

\* a constraint row of a polytope object: [offset, coeff...] with
\* offset + coeff.x >= 0 (inequality) or = 0 (equation)
RowSat(row, x) ==
    LET v == row.vec
        val == v[1] + Dot(SubSeq(v, 2, Len(v)), x)
    IN IF row.eq THEN val = 0 ELSE val >= 0

PolySat(rows, x) == \A i \in 1..Len(rows) : RowSat(rows[i], x)

\* ---- BoxInfty: "Guess input" ----
\* BoxGuess without the positional reading of (lengths, center)
BoxGuessStrict(lengths, center, radius) ==
    [got_lengths |-> (lengths # None /\ center = None /\ radius = None),
     got_center_and_radius |-> (lengths = None /\ center # None /\ radius # None),
     lengths |-> lengths, center |-> center, radius |-> radius]

BoxGuess(lengths, center, radius) ==
    IF lengths # None
    THEN IF center = None /\ radius = None
         THEN [got_lengths |-> TRUE, got_center_and_radius |-> FALSE,
               lengths |-> lengths, center |-> center, radius |-> radius]
         ELSE IF center # None /\ radius = None
         THEN [got_lengths |-> FALSE, got_center_and_radius |-> TRUE,
               lengths |-> Pairs(<<>>), center |-> lengths, radius |-> center]
         ELSE [got_lengths |-> FALSE, got_center_and_radius |-> FALSE,
               lengths |-> lengths, center |-> center, radius |-> radius]
    ELSE [got_lengths |-> FALSE,
          got_center_and_radius |-> (center # None /\ radius # None),
          lengths |-> lengths, center |-> center, radius |-> radius]

\* the row written at index count (0-based) of A: diri for the external
\* bound, -diri for the internal bound
BoxRowA(ndim, count) ==
    LET i == (count \div 2) + 1
    IN IF count % 2 = 0 THEN UnitVec(ndim, i) ELSE NegVec(UnitVec(ndim, i))

\* b[count] in the center+radius branch
BoxCenterB(center, radius, count) ==
    LET i == (count \div 2) + 1
    IN IF count % 2 = 0 THEN center[i] + radius ELSE -(center[i] - radius)

\* b[count] in the lengths branch
BoxLengthsB(lengths, count) ==
    LET i == (count \div 2) + 1
    IN IF count % 2 = 0 THEN lengths[i][2] ELSE -(lengths[i][1])

\* _make_listlist(lengths): the module neither defines nor imports the
\* name, so the call raises NameError
MakeListlist(lengths) == Raise("NameError")

\* the [A, b] the two construction branches build, or the exception
BoxHrep(lengths, center, radius) ==
    LET g == BoxGuess(lengths, center, radius)
    IN IF g.got_center_and_radius
       THEN LET ndim == Len(g.center.v)
            IN [branch |-> "center_and_radius",
                val |-> HList([k \in 1..(2 * ndim) |-> BoxRowA(ndim, k - 1)],
                              [k \in 1..(2 * ndim) |->
                                  BoxCenterB(g.center.v, g.radius.v, k - 1)])]
       ELSE IF g.got_lengths
       THEN LET l == MakeListlist(g.lengths)
                ndim == Len(l.v)
            IN IF l.kind = "raise" THEN [branch |-> "lengths", val |-> l]
               ELSE [branch |-> "lengths",
                     val |-> HList([k \in 1..(2 * ndim) |-> BoxRowA(ndim, k - 1)],
                                   [k \in 1..(2 * ndim) |->
                                       BoxLengthsB(l.v, k - 1)])]
       ELSE [branch |-> "none", val |-> Raise("ValueError")]

\* ---- polyhedron_to_Hrep ----
Coef(pi_vec) == SubSeq(pi_vec, 2, Len(pi_vec))

\* the loop of the branch "not separate_equality_constraints", after the
\* first k constraint rows
RECURSIVE ToHrepLoop(_, _)
ToHrepLoop(rows, k) ==
    IF k = 0 THEN [A |-> <<>>, b |-> <<>>]
    ELSE LET p == ToHrepLoop(rows, k - 1)
             pi_vec == rows[k].vec
         IN IF rows[k].eq
            THEN [A |-> p.A \o <<NegVec(Coef(pi_vec)), Coef(pi_vec)>>,
                  b |-> p.b \o <<pi_vec[1], pi_vec[1]>>]
            ELSE [A |-> Append(p.A, NegVec(Coef(pi_vec))),
                  b |-> Append(p.b, pi_vec[1])]

\* the loop of the branch that separates the equality constraints
RECURSIVE ToHrepSepLoop(_, _)
ToHrepSepLoop(rows, k) ==
    IF k = 0 THEN [A |-> <<>>, b |-> <<>>, Aeq |-> <<>>, beq |-> <<>>]
    ELSE LET p == ToHrepSepLoop(rows, k - 1)
             pi_vec == rows[k].vec
         IN IF rows[k].eq
            THEN [p EXCEPT !.Aeq = Append(@, NegVec(Coef(pi_vec))),
                           !.beq = Append(@, pi_vec[1])]
            ELSE [p EXCEPT !.A = Append(@, NegVec(Coef(pi_vec))),
                           !.b = Append(@, pi_vec[1])]

polyhedron_to_Hrep(P, separate_equality_constraints) ==
    IF ~separate_equality_constraints
    THEN LET r == ToHrepLoop(P.rows, Len(P.rows)) IN HList(r.A, r.b)
    ELSE LET r == ToHrepSepLoop(P.rows, Len(P.rows))
         IN [kind |-> "list4", A |-> r.A, b |-> r.b, Aeq |-> r.Aeq, beq |-> r.beq]

\* the readings of the Half-Space Model of P in one call of
\* polyhedron_to_Hrep: the one loop over P.Hrepresentation()
ToHrepConversions(P) == IF P.kind = "Polyhedron" THEN 1 ELSE 0

\* ---- the polytope engine: Polyhedron(ieqs = ieqs_list, ...) ----
IneqVal(v, x) == v[1] + Dot(Coef(v), x)

EnginePoints(ieqs, n) ==
    {x \in Lattice(n) : \A i \in 1..Len(ieqs) : IneqVal(ieqs[i], x) >= 0}

IsZeroVec(v) == \A i \in 1..Len(v) : v[i] = 0

\* the rows every point of the polyhedron satisfies with equality, one per
\* hyperplane: the engine reports them as equations
EngineEqIdx(ieqs, F) ==
    {i \in 1..Len(ieqs) :
        /\ ~IsZeroVec(Coef(ieqs[i]))
        /\ \A x \in F : IneqVal(ieqs[i], x) = 0
        /\ \A j \in 1..(i - 1) :
              ~(ieqs[j] = ieqs[i] \/ ieqs[j] = NegVec(ieqs[i]))}

\* the engine drops redundant inequalities: row k goes when the equations
\* and the inequalities still kept imply it
RECURSIVE EngineIrredundant(_, _, _, _, _)
EngineIrredundant(ieqs, n, eqIdx, keep, k) ==
    IF k > Len(ieqs) THEN keep
    ELSE IF k \notin keep THEN EngineIrredundant(ieqs, n, eqIdx, keep, k + 1)
    ELSE LET rest == keep \ {k}
             implied ==
                 \A x \in Lattice(n) :
                     (/\ \A i \in eqIdx : IneqVal(ieqs[i], x) = 0
                      /\ \A i \in rest : IneqVal(ieqs[i], x) >= 0)
                     => IneqVal(ieqs[k], x) >= 0
         IN EngineIrredundant(ieqs, n, eqIdx,
                              IF implied THEN rest ELSE keep, k + 1)

RECURSIVE PickRows(_, _, _, _)
PickRows(ieqs, idx, iseq, k) ==
    IF k = 0 THEN <<>>
    ELSE LET p == PickRows(ieqs, idx, iseq, k - 1)
         IN IF k \in idx THEN Append(p, [eq |-> iseq, vec |-> ieqs[k]]) ELSE p

\* the H-representation of the empty polyhedron: the equation -1 == 0
EmptyRows(n) == <<[eq |-> TRUE, vec |-> [j \in 1..(n + 1) |-> IF j = 1 THEN -1 ELSE 0]]>>

\* the orders the engine may list m rows in
Perms(m) == {p \in [1..m -> 1..m] : \A i, j \in 1..m : p[i] = p[j] => i = j}

\* the positive factors the engine may rescale m rows by
EngineScalings(m) == [1..m -> 1..MaxScale]

\* the rows as the engine lists them: the equations E first, in the order pe,
\* those of flip with the opposite sign, then the inequalities I in the
\* order pi, each row rescaled by its factor of sc
EngineRows(E, I, pe, pi, flip, sc) ==
    [i \in 1..(Len(E) + Len(I)) |->
        IF i <= Len(E)
        THEN [eq |-> TRUE,
              vec |-> ScaleVec(sc[i], IF pe[i] \in flip THEN NegVec(E[pe[i]].vec)
                                      ELSE E[pe[i]].vec)]
        ELSE [eq |-> FALSE, vec |-> ScaleVec(sc[i], I[pi[i - Len(E)]].vec)]]

\* The polytope objects the engine may return for the polyhedron of ieqs:
\* its equations and its irredundant inequalities, in an order, with the
\* signs of the equations and with the positive factors the engine chooses.
Polyhedron(ieqs, n) ==
    LET F == EnginePoints(ieqs, n)
        eqIdx == EngineEqIdx(ieqs, F)
        tight == {i \in 1..Len(ieqs) : \A x \in F : IneqVal(ieqs[i], x) = 0}
        ineqIdx == EngineIrredundant(ieqs, n, eqIdx, (1..Len(ieqs)) \ tight, 1)
        E == PickRows(ieqs, eqIdx, TRUE, Len(ieqs))
        I == PickRows(ieqs, ineqIdx, FALSE, Len(ieqs))
    IN IF F = {} THEN {[kind |-> "Polyhedron", rows |-> EmptyRows(n)]}
       ELSE {[kind |-> "Polyhedron", rows |-> EngineRows(E, I, pe, pi, flip, sc)] :
                pe \in Perms(Len(E)), pi \in Perms(Len(I)),
                flip \in SUBSET (1..Len(E)), sc \in EngineScalings(Len(E) + Len(I))}

\* ---- polyhedron_from_Hrep ----
\* IeqsRow without the change in sign
IeqsRowUnsigned(Arow, bi) == <<bi>> \o Arow

\* ieqs_list: row i negated with b[i] inserted at the front
IeqsRow(Arow, bi) == <<bi>> \o NegVec(Arow)

IeqsList(A, b) == [i \in 1..Len(A) |-> IeqsRow(A[i], b[i])]

\* the set of outcomes of polyhedron_from_Hrep(A, b, base_ring)
polyhedron_from_Hrep(A, b, base_ring) ==
    IF base_ring \in {"RDF", "QQ"}
    THEN Polyhedron(IeqsList(A, b), Len(A[1]))
    ELSE {Raise("ValueError")}

BaseRings == {"QQ", "RDF", "ZZ"}

\* the constructions Polyhedron(ieqs = ...) in one call of polyhedron_from_Hrep
FromHrepConversions(base_ring) == IF base_ring \in {"RDF", "QQ"} THEN 1 ELSE 0

\* ---- the LP solver ----
MaxOf(S) == CHOOSE m \in S : \A k \in S : k <= m

MinOf(S) == CHOOSE m \in S : \A k \in S : m <= k

RayDirs(n) == [1..n -> {-1, 0, 1}]

\* x = s_LP.new_variable(integer=False, nonnegative=False): free variables
SuppVarDomain(n) == Lattice(n)

\* s_LP.solve() and s_LP.get_values(x) for: maximize d.x subject to Ax <= b.
\* The outcomes: the exception of an infeasible or unbounded problem, or
\* the optimal value with an optimal point, any one of them.
SolveLP(A, b, d, n) ==
    LET F == {x \in SuppVarDomain(n) : HFeasible(A, b, x)}
        unbounded == \E y \in RayDirs(n) :
                        /\ \A i \in 1..Len(A) : Dot(A[i], y) <= 0
                        /\ Dot(d, y) > 0
    IN IF F = {} \/ unbounded THEN {Raise("MIPSolverException")}
       ELSE LET oval == MaxOf({Dot(d, x) : x \in F})
            IN {[kind |-> "solution", oval |-> oval, xopt |-> x] :
                   x \in {y \in F : Dot(d, y) = oval}}

\* ---- supp_fun_polyhedron ----
AmbientDim(P) ==
    IF P.kind = "list" THEN Len(P.A[1]) ELSE Len(P.rows[1].vec) - 1

\* P.is_empty() of a polytope object
is_empty(P) == \A x \in Lattice(AmbientDim(P)) : ~PolySat(P.rows, x)

\* SuppFunConstraints without the change in sign of the coefficients
SuppFunConstraintsUnsigned(P) ==
    IF P.kind = "list" THEN [A |-> P.A, b |-> P.b]
    ELSE [A |-> [i \in 1..Len(P.rows) |-> SubSeq(P.rows[i].vec, 2, Len(P.rows[i].vec))],
          b |-> [i \in 1..Len(P.rows) |-> P.rows[i].vec[1]]]

\* the constraints A, b handed to the LP: P[0], P[1] of a list; of a
\* polytope object, one row -coeff <= offset per constraint row
SuppFunConstraints(P) ==
    IF P.kind = "list" THEN [A |-> P.A, b |-> P.b]
    ELSE [A |-> [i \in 1..Len(P.rows) |-> NegVec(Coef(P.rows[i].vec))],
          b |-> [i \in 1..Len(P.rows) |-> P.rows[i].vec[1]]]

\* xopt as the mapping from coordinate index 0..n-1 to value
XoptDict(x) == [i \in 0..(Len(x) - 1) |-> x[i + 1]]

\* "if P.is_empty()", the first statement: a list has no is_empty
EmptyTest(P) ==
    IF P.kind = "list" THEN "AttributeError"
    ELSE IF is_empty(P) THEN "empty" ELSE "nonempty"

\* the set of outcomes of supp_fun_polyhedron(P, d, return_xopt = ...)
supp_fun_polyhedron(P, d, return_xopt) ==
    IF EmptyTest(P) = "AttributeError" THEN {Raise("AttributeError")}
    ELSE IF EmptyTest(P) = "empty" THEN {Num(0)}
    ELSE LET c == SuppFunConstraints(P)
         IN {IF s.kind = "raise" THEN s
             ELSE IF return_xopt
                  THEN [kind |-> "tuple", oval |-> s.oval, xopt |-> XoptDict(s.xopt)]
                  ELSE Num(s.oval) :
                s \in SolveLP(c.A, c.b, d, AmbientDim(P))}

\* the calls of s_LP.solve() in one call of supp_fun_polyhedron: one, when
\* the LP is formulated
SuppFunSolves(P) == IF EmptyTest(P) = "nonempty" THEN 1 ELSE 0

\* the extractions of (A, b) from a polytope object in one call: the loop
\* over P.Hrep_generator(), not run for a list
SuppFunConversions(P) ==
    IF EmptyTest(P) = "nonempty" /\ P.kind # "list" THEN 1 ELSE 0

\* ---- radius ----
\* the value of supp_fun_polyhedron([A, b], d), return_xopt left False
SuppFunValue(P, d) == CHOOSE s \in supp_fun_polyhedron(P, d, FALSE) : TRUE

\* r after the iterations i = 0..k-1 of the loop, or the exception that ended it
RECURSIVE RadiusLoop(_, _, _)
RadiusLoop(P, n, k) ==
    IF k = 0 THEN Num(0)
    ELSE LET p == RadiusLoop(P, n, k - 1)
         IN IF p.kind = "raise" THEN p
            ELSE LET s1 == SuppFunValue(P, UnitVec(n, k))
                 IN IF s1.kind = "raise" THEN s1
                    ELSE LET r1 == IF Abs(s1.v) >= p.v THEN Abs(s1.v) ELSE p.v
                             s2 == SuppFunValue(P, NegVec(UnitVec(n, k)))
                         IN IF s2.kind = "raise" THEN s2
                            ELSE Num(IF Abs(s2.v) >= r1 THEN Abs(s2.v) ELSE r1)

radius(P) ==
    IF P.kind = "list" THEN RadiusLoop(P, Len(P.A[1]), Len(P.A[1]))
    ELSE None   \* no branch for another type: the function returns nothing

\* the calls of supp_fun_polyhedron begun in the iterations i = 0..k-1 of the
\* loop: two an iteration, until one of them raises
RECURSIVE RadiusSuppCalls(_, _, _)
RadiusSuppCalls(P, n, k) ==
    IF k = 0 THEN 0
    ELSE IF RadiusLoop(P, n, k - 1).kind = "raise" THEN RadiusSuppCalls(P, n, k - 1)
    ELSE RadiusSuppCalls(P, n, k - 1)
         + (IF SuppFunValue(P, UnitVec(n, k)).kind = "raise" THEN 1 ELSE 2)

\* the LP solves in one call of radius: those of its supp_fun_polyhedron calls
RadiusSolves(P) ==
    IF P.kind = "list"
    THEN RadiusSuppCalls(P, Len(P.A[1]), Len(P.A[1])) * SuppFunSolves(P)
    ELSE 0

RadiusConversions(P) ==
    IF P.kind = "list"
    THEN RadiusSuppCalls(P, Len(P.A[1]), Len(P.A[1])) * SuppFunConversions(P)
    ELSE 0

\* ---- chebyshev_center ----
Matrix(rows) == [kind |-> "matrix", v |-> rows]

EmptyList == [kind |-> "emptylist"]

\* ChebGuess without the positional reading of (P, A)
ChebGuessStrict(P, A, b) ==
    [got_P |-> (P # None /\ A = None /\ b = None),
     got_Ab |-> (P = None /\ A # None /\ b # None),
     P |-> P, A |-> A, b |-> b]

\* "parse input"
ChebGuess(P, A, b) ==
    IF P # None
    THEN IF A = None /\ b = None
         THEN [got_P |-> TRUE, got_Ab |-> FALSE, P |-> P, A |-> A, b |-> b]
         ELSE IF A # None /\ b = None
         THEN [got_P |-> FALSE, got_Ab |-> TRUE, P |-> EmptyList, A |-> P, b |-> A]
         ELSE [got_P |-> FALSE, got_Ab |-> FALSE, P |-> P, A |-> A, b |-> b]
    ELSE [got_P |-> FALSE, got_Ab |-> (A # None /\ b # None),
          P |-> P, A |-> A, b |-> b]

IsSquare(k) == \E r \in 0..k : r * r = k

\* norm = sqrt(v.dot_product(v)), for the rows whose norm is an integer
RowNorm(v) == CHOOSE r \in 0..Dot(v, v) : r * r = Dot(v, v)

IntegerNorms(A) == \A i \in 1..Len(A) : IsSquare(Dot(A[i], A[i]))

\* ChebVarDomain with variables that are bounded below by 0
ChebVarDomainNonneg(m) == [1..m -> 0..(2 * Window)]

\* x = p.new_variable(): free variables.  The points are taken on the
\* half-integer lattice, X = 2x, where the Chebyshev centers of the boxes lie.
ChebVarDomain(m) == [1..m -> (-2 * Window)..(2 * Window)]

RECURSIVE ProductUpTo(_, _)
ProductUpTo(norms, k) ==
    IF k = 0 THEN 1
    ELSE ProductUpTo(norms, k - 1) * (IF norms[k] = 0 THEN 1 ELSE norms[k])

\* 2 * D * (the largest r with A_i.x + norm_i * r <= b_i for every row i) at
\* x = X / 2, D the product of the norms: the LP with r eliminated
ChebMargin(A, b, norms, D, X) ==
    MinOf({(2 * b[i] - Dot(A[i], X)) * (D \div norms[i]) :
              i \in {j \in 1..Len(A) : norms[j] > 0}})

\* p.solve() and p.get_values(x): an optimal point x (as X = 2x) of
\* maximize r subject to A_i.x + norm_i * r <= b_i, any one of them, or the
\* solver's exception
SolveChebLP(A, b, m) ==
    LET norms == [i \in 1..Len(A) |-> RowNorm(A[i])]
        D == ProductUpTo(norms, Len(A))
        normed == {j \in 1..Len(A) : norms[j] > 0}
        flatOk == \A j \in (1..Len(A)) \ normed : 0 <= b[j]
        unbounded == \E y \in RayDirs(m) : \A j \in normed : Dot(A[j], y) < 0
    IN IF ~flatOk \/ unbounded THEN {Raise("MIPSolverException")}
       ELSE LET margin == [X \in ChebVarDomain(m) |-> ChebMargin(A, b, norms, D, X)]
                best == MaxOf({margin[X] : X \in ChebVarDomain(m)})
            IN {[kind |-> "vector", num |-> X, den |-> 2] :
                   X \in {Y \in ChebVarDomain(m) : margin[Y] = best}}

\* the set of outcomes of chebyshev_center(P, A, b)
chebyshev_center(P, A, b) ==
    LET g == ChebGuess(P, A, b)
    IN IF g.got_Ab \/ g.got_P
       THEN LET h == IF g.got_P THEN polyhedron_to_Hrep(g.P, FALSE)
                     ELSE [A |-> g.A.v, b |-> g.b.v]
            IN IF ~g.got_P /\ g.A.kind # "matrix"
               THEN {Raise("AttributeError")}  \* A.nrows() of a polytope object
               ELSE IF Len(h.A) # Len(h.b) THEN {EmptyList}
               ELSE SolveChebLP(h.A, h.b, Len(h.A[1]))
       ELSE {Raise("ValueError")}

\* the calls of polyhedron_to_Hrep in one call of chebyshev_center
ChebConversions(P, A, b) == IF ChebGuess(P, A, b).got_P THEN 1 ELSE 0

\* the calls of p.solve() in one call of chebyshev_center: one, unless the
\* call ends before it
ChebSolves(P, A, b) ==
    LET g == ChebGuess(P, A, b)
    IN IF ~(g.got_Ab \/ g.got_P) THEN 0
       ELSE IF ~g.got_P /\ g.A.kind # "matrix" THEN 0
       ELSE LET h == IF g.got_P THEN polyhedron_to_Hrep(g.P, FALSE)
                     ELSE [A |-> g.A.v, b |-> g.b.v]
            IN IF Len(h.A) # Len(h.b) THEN 0 ELSE 1

\* ---- the arguments the sessions call with ----
Points(n) == [1..n -> Coords]

PointArgs == {Vec(c) : c \in UNION {Points(n) : n \in Dims}}

RadiusArgs == {Num(r) : r \in (-MaxRadius)..MaxRadius}

PairLists(n) == [1..n -> Coords \X Coords]

LengthsArgs == {Pairs(l) : l \in UNION {PairLists(n) : n \in Dims}}

\* The calls of BoxInfty: every combination of given and absent lengths,
\* center and radius.  A list of numbers given as lengths with a number as
\* center is the positional call BoxInfty(center, radius) of the docstring.
\* The combinations that mix (min, max) pairs with a center or a radius are
\* called with the one-dimensional values.
BoxCalls ==
    {[lengths |-> None, center |-> None, radius |-> None]}
    \cup {[lengths |-> None, center |-> c, radius |-> r] :
             c \in PointArgs, r \in RadiusArgs}
    \cup {[lengths |-> l, center |-> None, radius |-> None] : l \in LengthsArgs}
    \cup {[lengths |-> c, center |-> r, radius |-> None] :
             c \in PointArgs, r \in RadiusArgs}
    \cup {[lengths |-> None, center |-> c, radius |-> None] : c \in PointArgs}
    \cup {[lengths |-> None, center |-> None, radius |-> r] : r \in RadiusArgs}
    \cup {[lengths |-> Pairs(l), center |-> None, radius |-> r] :
             l \in PairLists(1), r \in RadiusArgs}
    \cup {[lengths |-> Pairs(l), center |-> Vec(c), radius |-> r] :
             l \in PairLists(1), c \in Points(1), r \in RadiusArgs}

Directions(n) == [1..n -> {-1, 0, 1}]

\* what the last call returned: the argument of the next call
Cur == IF hist = <<>> THEN None ELSE hist[Len(hist)].ret

\* path: the branch of the input parsing the call took; solves, convs: the
\* LP solves and the representation conversions the call performed
Record(op, args, path, ret, solves, convs) ==
    /\ hist' = Append(hist, [op |-> op, args |-> args, path |-> path, ret |-> ret,
                             solves |-> solves, convs |-> convs])
    /\ regH' = IF ret.kind = "list" THEN ret ELSE regH
    /\ regP' = IF ret.kind = "Polyhedron" THEN ret ELSE regP

Init ==
    /\ hist = <<>>
    /\ regH = None
    /\ regP = None

\* the set of outcomes of
\* BoxInfty(lengths, center, radius, base_ring, return_HSpaceRep)
BoxInfty(call, base_ring, return_HSpaceRep) ==
    LET h == BoxHrep(call.lengths, call.center, call.radius)
    IN IF h.val.kind = "raise" \/ return_HSpaceRep THEN {h}
       ELSE {[branch |-> h.branch, val |-> v] :
                v \in polyhedron_from_Hrep(h.val.A, h.val.b, base_ring)}

\* the calls of polyhedron_from_Hrep in one call of BoxInfty, each one
\* conversion when the ring is supported
BoxInftyConversions(call, base_ring, return_HSpaceRep) ==
    IF BoxHrep(call.lengths, call.center, call.radius).val.kind = "raise" THEN 0
    ELSE IF ~return_HSpaceRep THEN FromHrepConversions(base_ring)
    ELSE 0

\* base_ring and return_HSpaceRep of the calls; an unsupported ring is
\* passed where BoxInfty hands it to polyhedron_from_Hrep
BoxOptions == {<<"QQ", TRUE>>, <<"QQ", FALSE>>, <<"ZZ", FALSE>>}

BoxInftyCall ==
    /\ hist = <<>>
    /\ \E call \in BoxCalls, opt \in BoxOptions :
          \E r \in BoxInfty(call, opt[1], opt[2]) :
              Record("BoxInfty",
                     [lengths |-> call.lengths, center |-> call.center,
                      radius |-> call.radius, base_ring |-> opt[1],
                      return_HSpaceRep |-> opt[2]],
                     r.branch, r.val,
                     0, BoxInftyConversions(call, opt[1], opt[2]))

FromHrepCall ==
    /\ Len(hist) < MaxCalls
    /\ Cur.kind = "list"
    /\ \E base_ring \in BaseRings :
          \E ret \in polyhedron_from_Hrep(Cur.A, Cur.b, base_ring) :
              Record("polyhedron_from_Hrep",
                     [A |-> Cur.A, b |-> Cur.b, base_ring |-> base_ring],
                     base_ring, ret,
                     0, FromHrepConversions(base_ring))

ToHrepCall ==
    /\ Len(hist) < MaxCalls
    /\ Cur.kind = "Polyhedron"
    /\ \E sep \in BOOLEAN :
          Record("polyhedron_to_Hrep",
                 [P |-> Cur, separate_equality_constraints |-> sep],
                 IF sep THEN "separate" ELSE "inequalities",
                 polyhedron_to_Hrep(Cur, sep),
                 0, ToHrepConversions(Cur))

SuppFunCall ==
    /\ Len(hist) < MaxCalls
    /\ Cur.kind \in {"list", "Polyhedron"}
    /\ \E d \in Directions(AmbientDim(Cur)), return_xopt \in BOOLEAN :
          \E ret \in supp_fun_polyhedron(Cur, d, return_xopt) :
              Record("supp_fun_polyhedron",
                     [P |-> Cur, d |-> d, return_xopt |-> return_xopt],
                     Cur.kind, ret,
                     SuppFunSolves(Cur), SuppFunConversions(Cur))

RadiusCall ==
    /\ Len(hist) < MaxCalls
    /\ Cur.kind \in {"list", "Polyhedron"}
    /\ Record("radius", [P |-> Cur], Cur.kind, radius(Cur),
              RadiusSolves(Cur), RadiusConversions(Cur))

\* the [A, b] of the session's box: the latest Half-Space Model a call
\* returned, or the one BoxInfty built before it converted it
SessionH ==
    IF regH # None THEN regH
    ELSE IF hist # <<>> /\ hist[1].op = "BoxInfty"
    THEN BoxHrep(hist[1].args.lengths, hist[1].args.center, hist[1].args.radius).val
    ELSE None

\* The calls of chebyshev_center, every combination of given and absent
\* P, A and b: P is absent, the latest polytope object, or (the positional
\* call chebyshev_center(A, b)) the matrix; A is absent, the matrix or (in
\* the positional call) the vector; b is absent or the vector.
ChebCalls ==
    LET H == SessionH
        Ps == {None} \cup (IF regP = None THEN {} ELSE {regP})
                     \cup (IF H.kind = "list" THEN {Matrix(H.A)} ELSE {})
        As == {None} \cup (IF H.kind = "list" THEN {Matrix(H.A), Vec(H.b)} ELSE {})
        bs == {None} \cup (IF H.kind = "list" THEN {Vec(H.b)} ELSE {})
    IN {c \in [P : Ps, A : As, b : bs] :
          \* the values are of the parameter's type, but for the positional call
          /\ c.A.kind = "vec" <=> (c.P.kind = "matrix" /\ c.b = None)
          /\ c.P.kind = "matrix" => c.A.kind = "vec"}

\* which of got_P, got_Ab the parsing set
ChebPath(P, A, b) ==
    LET g == ChebGuess(P, A, b)
    IN IF g.got_P THEN "got_P" ELSE IF g.got_Ab THEN "got_Ab" ELSE "none"

ChebCall ==
    /\ Len(hist) < MaxCalls
    /\ Cur.kind \in {"list", "Polyhedron"}
    /\ SessionH.kind = "list" => IntegerNorms(SessionH.A)
    /\ \E c \in ChebCalls :
          \E ret \in chebyshev_center(c.P, c.A, c.b) :
              Record("chebyshev_center", c, ChebPath(c.P, c.A, c.b), ret,
                     ChebSolves(c.P, c.A, c.b), ChebConversions(c.P, c.A, c.b))

Next ==
    \/ BoxInftyCall
    \/ FromHrepCall
    \/ ToHrepCall
    \/ SuppFunCall
    \/ RadiusCall
    \/ ChebCall

Spec == Init /\ [][Next]_vars

\* ---- what the claims speak about ----
Calls == 1..Len(hist)

\* the polyhedron {x : Ax <= b} has a point, and no direction to infinity
NonEmptyH(A, b) == \E x \in Lattice(Len(A[1])) : HFeasible(A, b, x)

BoundedH(A) ==
    \A y \in RayDirs(Len(A[1])) :
        (\A i \in 1..Len(A) : Dot(A[i], y) <= 0) => IsZeroVec(y)

NumEq(rows) == Cardinality({i \in 1..Len(rows) : rows[i].eq})

\* C1: polyhedron_to_Hrep(P) without equality separation returns [A, b]
\* with one row per inequality and two per equation, and {x : Ax <= b} is
\* exactly the set of P's constraint rows, also for equations with a
\* non-zero offset.
C1_ToHrepExact ==
    \A i \in Calls :
        LET q == hist[i]
        IN (q.op = "polyhedron_to_Hrep" /\ ~q.args.separate_equality_constraints)
           => /\ Len(q.ret.A) = Len(q.args.P.rows) + NumEq(q.args.P.rows)
              /\ Len(q.ret.b) = Len(q.ret.A)
              /\ \A x \in Lattice(AmbientDim(q.args.P)) :
                    HFeasible(q.ret.A, q.ret.b, x) <=> PolySat(q.args.P.rows, x)

PolyPoints(P) == {x \in Lattice(AmbientDim(P)) : PolySat(P.rows, x)}

\* C2: for a non-empty polytope object P the (A, b) supp_fun_polyhedron
\* reads from P's rows has P's feasible region, also with equation rows,
\* and the call returns the maximum of d.x over the points of P.
C2_SuppFunReadsP ==
    \A i \in Calls :
        LET q == hist[i]
            c == SuppFunConstraints(q.args.P)
        IN (/\ q.op = "supp_fun_polyhedron"
            /\ q.args.P.kind = "Polyhedron"
            /\ PolyPoints(q.args.P) # {})
           => /\ \A x \in Lattice(AmbientDim(q.args.P)) :
                    HFeasible(c.A, c.b, x) <=> PolySat(q.args.P.rows, x)
              /\ LET m == MaxOf({Dot(q.args.d, x) : x \in PolyPoints(q.args.P)})
                 IN IF q.args.return_xopt
                    THEN q.ret.kind = "tuple" /\ q.ret.oval = m
                    ELSE q.ret = Num(m)

HPoints(A, b) == {x \in Lattice(Len(A[1])) : HFeasible(A, b, x)}

\* C3: for a Half-Space Model [A, b] of a non-empty bounded region,
\* supp_fun_polyhedron([A, b], d) returns normally and its value is the
\* maximum of d.x over {x : Ax <= b}.
C3_SuppFunOnHrep ==
    \A i \in Calls :
        LET q == hist[i]
        IN (/\ q.op = "supp_fun_polyhedron"
            /\ q.args.P.kind = "list"
            /\ NonEmptyH(q.args.P.A, q.args.P.b)
            /\ BoundedH(q.args.P.A))
           => LET m == MaxOf({Dot(q.args.d, x) : x \in HPoints(q.args.P.A, q.args.P.b)})
              IN IF q.args.return_xopt
                 THEN q.ret.kind = "tuple" /\ q.ret.oval = m
                 ELSE q.ret = Num(m)

SupNorm(x) == MaxOf({Abs(x[i]) : i \in 1..Len(x)})

\* C4: for a Half-Space Model of a non-empty bounded polytope, radius([A, b])
\* returns the largest absolute coordinate value of any point of it.
C4_RadiusValue ==
    \A i \in Calls :
        LET q == hist[i]
        IN (/\ q.op = "radius"
            /\ q.args.P.kind = "list"
            /\ NonEmptyH(q.args.P.A, q.args.P.b)
            /\ BoundedH(q.args.P.A))
           => q.ret = Num(MaxOf({SupNorm(x) : x \in HPoints(q.args.P.A, q.args.P.b)}))

\* the center and the radius a BoxInfty call was given, by keyword or
\* positionally
BoxCenter(q) == IF q.args.lengths = None THEN q.args.center.v ELSE q.args.lengths.v

BoxRadius(q) == IF q.args.lengths = None THEN q.args.radius.v ELSE q.args.center.v

RECURSIVE SumAbsUpTo(_, _)
SumAbsUpTo(d, k) == IF k = 0 THEN 0 ELSE SumAbsUpTo(d, k - 1) + Abs(d[k])

\* the call i asks, with return_xopt, for the support function of the
\* polytope object that BoxInfty(center, radius) with radius > 0 returned,
\* in a direction without zero component
BoxSupportCase(i) ==
    /\ i > 1
    /\ hist[i].op = "supp_fun_polyhedron"
    /\ hist[i].args.return_xopt
    /\ hist[1].op = "BoxInfty"
    /\ hist[1].path = "center_and_radius"
    /\ hist[1].ret.kind = "Polyhedron"
    /\ hist[i].args.P = hist[1].ret
    /\ BoxRadius(hist[1]) > 0
    /\ \A k \in 1..Len(hist[i].args.d) : hist[i].args.d[k] # 0

\* C5: for P = BoxInfty(center = c, radius = r), r > 0, and d with no zero
\* component, supp_fun_polyhedron(P, d, return_xopt = True) returns the pair
\* (d.c + r * sum |d_i|, the vertex c_i + r where d_i > 0, c_i - r where d_i < 0).
C5_BoxSupport ==
    \A i \in Calls :
        BoxSupportCase(i) =>
            LET d == hist[i].args.d
                c == BoxCenter(hist[1])
                r == BoxRadius(hist[1])
            IN hist[i].ret =
                  [kind |-> "tuple",
                   oval |-> Dot(d, c) + r * SumAbsUpTo(d, Len(d)),
                   xopt |-> [k \in 0..(Len(d) - 1) |->
                                IF d[k + 1] > 0 THEN c[k + 1] + r ELSE c[k + 1] - r]]

C5_Witness ==
    \E i \in Calls :
        /\ BoxSupportCase(i)
        /\ hist[i].args.d = <<1, -1>>
        /\ BoxCenter(hist[1]) = <<-1, 1>>
        /\ hist[1].args.lengths = None
        /\ hist[i].ret.kind = "tuple"

HalfLattice(m) == [1..m -> (-2 * Window)..(2 * Window)]

\* the call i is chebyshev_center on the [A, b] the first call, BoxInfty
\* with return_HSpaceRep, returned: chebyshev_center(A = A, b = b) or
\* chebyshev_center(A, b)
BoxChebCase(i) ==
    /\ i > 1
    /\ hist[i].op = "chebyshev_center"
    /\ hist[1].op = "BoxInfty"
    /\ hist[1].ret.kind = "list"
    /\ LET H == hist[1].ret
           a == hist[i].args
       IN \/ a.P = None /\ a.A = Matrix(H.A) /\ a.b = Vec(H.b)
          \/ a.P = Matrix(H.A) /\ a.A = Vec(H.b) /\ a.b = None

\* twice the radius of the largest ball around X / 2 inside every halfspace
\* of a system with rows of norm 1
UnitMargin(A, b, X) == MinOf({2 * b[k] - Dot(A[k], X) : k \in 1..Len(A)})

\* C6: chebyshev_center returns a point that maximizes the r of
\* "A_i.x + |A_i| * r <= b_i for every row i", and for the Half-Space Model of
\* the box with center c and radius r > 0 it returns exactly c, also when c
\* has negative coordinates.
C6_BoxChebCenter ==
    \A i \in Calls :
        BoxChebCase(i) =>
            LET H == hist[1].ret
                m == Len(H.A[1])
            IN /\ hist[i].ret.kind = "vector"
               /\ hist[i].ret.den = 2
               /\ \A X \in HalfLattice(m) :
                     UnitMargin(H.A, H.b, X) <= UnitMargin(H.A, H.b, hist[i].ret.num)
               /\ (hist[1].path = "center_and_radius" /\ BoxRadius(hist[1]) > 0)
                     => hist[i].ret.num = ScaleVec(2, BoxCenter(hist[1]))

C6_Witness ==
    \E i \in Calls :
        /\ BoxChebCase(i)
        /\ hist[1].path = "center_and_radius"
        /\ BoxRadius(hist[1]) = 1
        /\ BoxCenter(hist[1]) = <<-1, 1>>
        /\ hist[i].args.P = None
        /\ hist[i].ret = [kind |-> "vector", num |-> <<-2, 2>>, den |-> 2]

\* {x : Ax <= b} has an interior point
FullDimH(A, b) ==
    \E X \in HalfLattice(Len(A[1])) : \A k \in 1..Len(A) : Dot(A[k], X) < 2 * b[k]

\* the (A, b) the call i handed to polyhedron_from_Hrep: its arguments, or
\* the box system that BoxInfty without return_HSpaceRep built and converted
FromHrepInput(i) ==
    IF hist[i].op = "polyhedron_from_Hrep"
    THEN [A |-> hist[i].args.A, b |-> hist[i].args.b]
    ELSE LET h == BoxHrep(hist[i].args.lengths, hist[i].args.center,
                          hist[i].args.radius).val
         IN [A |-> h.A, b |-> h.b]

\* the call i is polyhedron_to_Hrep of the polytope object that
\* polyhedron_from_Hrep(A, b) returned in the call before, called by the
\* session or by BoxInfty
RoundTripCase(i) ==
    /\ i > 1
    /\ hist[i].op = "polyhedron_to_Hrep"
    /\ ~hist[i].args.separate_equality_constraints
    /\ hist[i - 1].op \in {"polyhedron_from_Hrep", "BoxInfty"}
    /\ hist[i - 1].ret.kind = "Polyhedron"
    /\ hist[i].args.P = hist[i - 1].ret

\* C7: for (A, b) of a full-dimensional bounded polytope,
\* polyhedron_to_Hrep(polyhedron_from_Hrep(A, b)) has the feasible region of
\* (A, b), however the engine reorders and rescales the rows; and stripping
\* and negating the row [b_i, -A_i] gives back the row A_i with b_i.
C7_RoundTrip ==
    \A i \in Calls :
        /\ (/\ RoundTripCase(i)
            /\ FullDimH(FromHrepInput(i - 1).A, FromHrepInput(i - 1).b)
            /\ BoundedH(FromHrepInput(i - 1).A))
           => \A x \in Lattice(Len(FromHrepInput(i - 1).A[1])) :
                 HFeasible(hist[i].ret.A, hist[i].ret.b, x)
                    <=> HFeasible(FromHrepInput(i - 1).A, FromHrepInput(i - 1).b, x)
        /\ hist[i].op = "polyhedron_from_Hrep"
           => \A k \in 1..Len(hist[i].args.A) :
                 LET A == hist[i].args.A
                     b == hist[i].args.b
                     row == [eq |-> FALSE, vec |-> IeqsRow(A[k], b[k])]
                 IN /\ row.vec = <<b[k]>> \o NegVec(A[k])
                    /\ ToHrepLoop(<<row>>, 1) = [A |-> <<A[k]>>, b |-> <<b[k]>>]

\* a round trip of a two-dimensional box whose rows the engine has listed in
\* another order, one of them rescaled
C7_Witness ==
    \E i \in Calls :
        /\ RoundTripCase(i)
        /\ FullDimH(FromHrepInput(i - 1).A, FromHrepInput(i - 1).b)
        /\ BoundedH(FromHrepInput(i - 1).A)
        /\ Len(FromHrepInput(i - 1).A[1]) = 2
        /\ hist[i].ret.A[1] = FromHrepInput(i - 1).A[3]
        /\ \E k \in 1..Len(hist[i].ret.A) : Dot(hist[i].ret.A[k], hist[i].ret.A[k]) > 1

\* the interval [lo, hi] of axis k of a BoxInfty call
BoxLo(q, k) ==
    IF q.path = "lengths" THEN q.args.lengths.v[k][1]
    ELSE BoxCenter(q)[k] - BoxRadius(q)

BoxHi(q, k) ==
    IF q.path = "lengths" THEN q.args.lengths.v[k][2]
    ELSE BoxCenter(q)[k] + BoxRadius(q)

BoxDim(q) == IF q.path = "lengths" THEN Len(q.args.lengths.v) ELSE Len(BoxCenter(q))

\* the call i is BoxInfty with return_HSpaceRep and one of the two input
\* modes: center with radius (by keyword or positionally), or lengths
BoxHrepCase(i) ==
    /\ hist[i].op = "BoxInfty"
    /\ hist[i].args.return_HSpaceRep
    /\ hist[i].path \in {"center_and_radius", "lengths"}

\* C8: BoxInfty with return_HSpaceRep returns [A, b] with 2n rows and n
\* columns, row 2i = e_i with b = center_i + radius (or max_i), row 2i+1 =
\* -e_i with b = -(center_i - radius) (or -min_i), every other entry zero,
\* and the feasible set is the product of the intervals.
C8_BoxRows ==
    \A i \in Calls :
        BoxHrepCase(i) =>
            LET q == hist[i]
                n == BoxDim(q)
                A == q.ret.A
                b == q.ret.b
            IN /\ q.ret.kind = "list"
               /\ Len(A) = 2 * n
               /\ Len(b) = Len(A)
               /\ \A k \in 1..n :
                     /\ Len(A[2 * k - 1]) = n
                     /\ Len(A[2 * k]) = n
                     /\ A[2 * k - 1][k] = 1
                     /\ b[2 * k - 1] = BoxHi(q, k)
                     /\ A[2 * k][k] = -1
                     /\ b[2 * k] = -BoxLo(q, k)
                     /\ \A j \in (1..n) \ {k} : A[2 * k - 1][j] = 0 /\ A[2 * k][j] = 0
               /\ \A x \in Lattice(n) :
                     HFeasible(A, b, x)
                        <=> \A k \in 1..n : BoxLo(q, k) <= x[k] /\ x[k] <= BoxHi(q, k)

Given(v) == v # None

\* C9 as claimed: BoxInfty raises ValueError for every combination of given
\* and absent arguments but lengths alone and center with radius alone, and
\* lengths given together with center is such an error.
C9_ModesExclusive ==
    \A i \in Calls :
        hist[i].op = "BoxInfty" =>
            LET a == hist[i].args
                onlyLengths == Given(a.lengths) /\ ~Given(a.center) /\ ~Given(a.radius)
                onlyCR == ~Given(a.lengths) /\ Given(a.center) /\ Given(a.radius)
            IN /\ (hist[i].path = "none" /\ hist[i].ret = Raise("ValueError"))
                     <=> ~(onlyLengths \/ onlyCR)
               /\ onlyLengths => hist[i].path = "lengths"
               /\ onlyCR => hist[i].path = "center_and_radius"

\* C9 amended: the input check of BoxInfty raises ValueError exactly when
\* nothing is given, only center, only radius, lengths with radius, or all
\* three; lengths given with center and without radius is read positionally
\* (center := lengths, radius := center) and the center+radius branch builds
\* the box; lengths alone takes the lengths branch, center with radius the
\* center+radius branch; no call takes both branches.
C9_ModesPositional ==
    \A i \in Calls :
        hist[i].op = "BoxInfty" =>
            LET a == hist[i].args
                onlyLengths == Given(a.lengths) /\ ~Given(a.center) /\ ~Given(a.radius)
                onlyCR == ~Given(a.lengths) /\ Given(a.center) /\ Given(a.radius)
                positional == Given(a.lengths) /\ Given(a.center) /\ ~Given(a.radius)
            IN /\ (hist[i].path = "none" /\ hist[i].ret = Raise("ValueError"))
                     <=> ~(onlyLengths \/ onlyCR \/ positional)
               /\ hist[i].path \in {"none", "lengths", "center_and_radius"}
               /\ onlyLengths => hist[i].path = "lengths"
               /\ onlyCR => hist[i].path = "center_and_radius"
               /\ positional =>
                     /\ hist[i].path = "center_and_radius"
                     /\ hist[i].ret.kind = "list" =>
                           \A k \in 1..Len(a.lengths.v) :
                               /\ hist[i].ret.b[2 * k - 1] = a.lengths.v[k] + a.center.v
                               /\ hist[i].ret.b[2 * k] = -(a.lengths.v[k] - a.center.v)

C9_Witness ==
    \E i \in Calls :
        /\ hist[i].op = "BoxInfty"
        /\ hist[i].args.lengths = Vec(<<1, -1>>)
        /\ hist[i].args.center = Num(1)
        /\ hist[i].args.radius = None
        /\ hist[i].ret = HList(<< <<1, 0>>, <<-1, 0>>, <<0, 1>>, <<0, -1>> >>, <<2, 0, 0, 2>>)

\* C10 as claimed: chebyshev_center computes only for P alone or A with b
\* and without P, raises ValueError for every other combination, and never
\* uses the argument supplied as P as the matrix A.
C10_FormsExclusive ==
    \A i \in Calls :
        hist[i].op = "chebyshev_center" =>
            LET a == hist[i].args
                onlyP == Given(a.P) /\ ~Given(a.A) /\ ~Given(a.b)
                onlyAb == ~Given(a.P) /\ Given(a.A) /\ Given(a.b)
            IN /\ (hist[i].path = "none" /\ hist[i].ret = Raise("ValueError"))
                     <=> ~(onlyP \/ onlyAb)
               /\ onlyP => hist[i].path = "got_P"
               /\ onlyAb => hist[i].path = "got_Ab"
               /\ Given(a.P) => ChebGuess(a.P, a.A, a.b).A # a.P

\* C10 amended: chebyshev_center raises ValueError exactly when nothing is
\* given, only A, only b, P with b, or all three; P given with A and without
\* b is read positionally (the value supplied as P is used as the matrix A,
\* the value supplied as A as the vector b) and the center is computed from
\* them, which ends with AttributeError when the value supplied as P is a
\* polytope object; P alone is converted by polyhedron_to_Hrep, A with b is
\* used as given.
C10_FormsPositional ==
    \A i \in Calls :
        hist[i].op = "chebyshev_center" =>
            LET a == hist[i].args
                onlyP == Given(a.P) /\ ~Given(a.A) /\ ~Given(a.b)
                onlyAb == ~Given(a.P) /\ Given(a.A) /\ Given(a.b)
                positional == Given(a.P) /\ Given(a.A) /\ ~Given(a.b)
            IN /\ (hist[i].path = "none" /\ hist[i].ret = Raise("ValueError"))
                     <=> ~(onlyP \/ onlyAb \/ positional)
               /\ hist[i].path \in {"none", "got_P", "got_Ab"}
               /\ onlyP => hist[i].path = "got_P"
               /\ onlyAb => hist[i].path = "got_Ab"
               /\ positional =>
                     /\ hist[i].path = "got_Ab"
                     /\ a.P.kind = "matrix" =>
                           hist[i].ret \in chebyshev_center(None, a.P, a.A)
                     /\ a.P.kind = "Polyhedron" =>
                           hist[i].ret = Raise("AttributeError")

C10_Witness ==
    \E i \in Calls :
        /\ hist[i].op = "chebyshev_center"
        /\ hist[i].args.P = Matrix(<< <<1>>, <<-1>> >>)
        /\ hist[i].args.A = Vec(<<0, 2>>)
        /\ hist[i].args.b = None
        /\ hist[i].ret = [kind |-> "vector", num |-> <<-2>>, den |-> 2]

\* C11: every supp_fun_polyhedron call that returns normally returns, with
\* return_xopt = True, the pair (optimal value, optimal point as a mapping
\* from the coordinate indices 0..n-1), also for an empty polytope; with
\* return_xopt = False it returns the bare value.
C11_ReturnShape ==
    \A i \in Calls :
        LET q == hist[i]
        IN (q.op = "supp_fun_polyhedron" /\ q.ret.kind # "raise")
           => IF q.args.return_xopt
              THEN /\ q.ret.kind = "tuple"
                   /\ DOMAIN q.ret.xopt = 0..(AmbientDim(q.args.P) - 1)
              ELSE q.ret.kind = "num"

====
